---------------------------- MODULE Spec2Model ----------------------------
(***************************************************************************)
(* Model of server.js: the session store, the order pipeline on the one   *)
(* shared sqlite3 connection, and the SSE hub.                             *)
(*                                                                         *)
(* Node runs the handlers on one thread; a handler runs without            *)
(* interruption from one `await` to the next.  Every action below is one   *)
(* such slice: the storage statement the handler awaits is executed by     *)
(* the connection and the handler then runs on to its next `await` (or to  *)
(* its response).  Statements of different requests interleave freely.     *)
(*                                                                         *)
(* Left out of the rows: table_no, note, image, created_at, updated_at     *)
(* (no handler branches on them).  The customer name of create request r   *)
(* is r itself, so a row can be traced to the request that wrote it.       *)
(***************************************************************************)
EXTENDS Integers, Sequences, FiniteSets, TLC

VARIABLES
    now,        \* Date.now()
    ticks,      \* number of clock advances so far (bounds the clock)
    sessions,   \* the Map `sessions`: token -> session
    issued,     \* history: token -> the session createSession stored for it
    sseClients, \* the Set `sseClients` (connection handles)
    clients,    \* per stream connection: token, HTTP status, ended, closed
    written,    \* per stream connection: the events written to res
    store,      \* tables as the connection sees them (uncommitted rows included)
    inTx,       \* the connection has an open transaction
    journal,    \* the tables as they were at BEGIN (restored by ROLLBACK)
    creq,       \* POST /api/orders requests
    ureq,       \* PATCH /api/admin/orders/:id/status requests
    lreq,       \* GET /api/admin/orders requests
    published,  \* history: the broadcast() calls made, in order
    txWriters,  \* history: the requests with a write inside the open transaction
    undone,     \* history: the requests a ROLLBACK has undone a write of
    faults      \* number of storage faults injected so far

vars == <<now, ticks, sessions, issued, sseClients, clients, written,
          store, inTx, journal, creq, ureq, lreq, published, txWriters, undone,
          faults>>

hubVars == <<sseClients, clients, written>>
dbVars == <<store, inTx, journal, txWriters, undone>>

----------------------------------------------------------------------------
(* Bounds *)

MaxCreates == 2
MaxUpdates == 2
MaxLists == 1
MaxRequests == 3
MaxFaults == 1
MaxTicks == 2
MaxClients == 2

CreateReqs == 1..MaxCreates
UpdateReqs == 1..MaxUpdates
ListReqs == 1..MaxLists
Clients == 1..MaxClients

----------------------------------------------------------------------------
(* Program constants *)

SESSION_TTL_MS == 12 * 60 * 60 * 1000

ORDER_STATUSES == {"pending", "preparing", "served", "cancelled"}

Tokens == {"t1", "t2"}

null == [null |-> TRUE]

----------------------------------------------------------------------------
(* Text and number coercions.  A text is a tuple of characters; a raw      *)
(* number is <<>> (missing / not a number) or <<h>>, the number h/2.       *)

RECURSIVE TrimLeft(_)
TrimLeft(s) ==
    IF s # <<>> /\ Head(s) = " " THEN TrimLeft(Tail(s)) ELSE s

RECURSIVE TrimRight(_)
TrimRight(s) ==
    IF s # <<>> /\ s[Len(s)] = " " THEN TrimRight(SubSeq(s, 1, Len(s) - 1)) ELSE s

sanitizeText(value, maxLen) ==
    LET clean == TrimRight(TrimLeft(value))
    IN  IF maxLen = 0 THEN clean
        ELSE SubSeq(clean, 1, IF Len(clean) < maxLen THEN Len(clean) ELSE maxLen)

\* Number(v) || dflt, in halves
NumberOr(v, dflt) ==
    IF v = <<>> \/ v[1] = 0 THEN 2 * dflt ELSE v[1]

\* Math.round of h/2: halves round towards +Infinity
MathRound(h) == (h + 1) \div 2

MathMax(a, b) == IF a > b THEN a ELSE b
MathMin(a, b) == IF a < b THEN a ELSE b

normalizeItem(item) ==
    [name  |-> sanitizeText(item.name, 120),
     price |-> MathMax(0, MathRound(NumberOr(item.price, 0))),
     qty   |-> MathMax(1, MathMin(99, MathRound(NumberOr(item.qty, 1))))]

RECURSIVE normalizeItems(_)
normalizeItems(items) ==
    IF items = <<>> THEN <<>>
    ELSE LET it == normalizeItem(Head(items))
         IN  (IF it.name # <<>> THEN <<it>> ELSE <<>>) \o normalizeItems(Tail(items))

RECURSIVE Total(_)
Total(items) ==
    IF items = <<>> THEN 0
    ELSE Head(items).price * Head(items).qty + Total(Tail(items))

\* request bodies offered to POST /api/orders
RawOrders ==
    { << [name |-> <<"p">>, price |-> <<120>>, qty |-> <<4>>],
         [name |-> <<" ", "t">>, price |-> <<30>>, qty |-> <<2>>] >>,
      << [name |-> <<" ">>, price |-> <<20>>, qty |-> <<2>>] >>,
      << [name |-> <<>>, price |-> <<-3>>, qty |-> <<199>>],
         [name |-> <<"s", " ">>, price |-> <<5>>, qty |-> <<>>] >> }

----------------------------------------------------------------------------
(* The sqlite3 connection `db`.  One connection serves every request, so   *)
(* the transaction state (inTx, journal) is shared by all of them, and a   *)
(* statement sees every row written on the connection, committed or not.   *)

EmptyStore == [orders |-> <<>>, items |-> <<>>, seqOrders |-> 0, seqItems |-> 0]

SqlErr == [err |-> TRUE, store |-> store, inTx |-> inTx, journal |-> journal,
           lastID |-> 0, changes |-> 0, rolledBack |-> FALSE]

SqlOk(s, t, j, lastID, changes) ==
    [err |-> FALSE, store |-> s, inTx |-> t, journal |-> j,
     lastID |-> lastID, changes |-> changes, rolledBack |-> FALSE]

\* BEGIN TRANSACTION: an error when the connection is already in one
SqlBegin(fault) ==
    IF fault \/ inTx THEN SqlErr
    ELSE SqlOk(store, TRUE, store, 0, 0)

\* COMMIT: an error when no transaction is open
SqlCommit(fault) ==
    IF fault \/ ~inTx THEN SqlErr
    ELSE SqlOk(store, FALSE, EmptyStore, 0, 0)

\* ROLLBACK: undoes everything written on the connection since BEGIN
SqlRollback ==
    IF ~inTx THEN SqlErr
    ELSE [SqlOk(journal, FALSE, EmptyStore, 0, 0) EXCEPT !.rolledBack = TRUE]

Put(f, k, v) == [x \in DOMAIN f \cup {k} |-> IF x = k THEN v ELSE f[x]]

\* INSERT INTO orders ... 'pending': the id is the AUTOINCREMENT sequence + 1
SqlInsertOrder(fault, customerName, total) ==
    IF fault THEN SqlErr
    ELSE LET id == store.seqOrders + 1
             row == [id |-> id, customerName |-> customerName,
                     status |-> "pending", total |-> total]
         IN  SqlOk([store EXCEPT !.orders = Put(@, id, row), !.seqOrders = id],
                   inTx, journal, id, 1)

\* INSERT INTO order_items: FOREIGN KEY(order_id) REFERENCES orders(id)
SqlInsertItem(fault, orderId, item) ==
    IF fault \/ orderId \notin DOMAIN store.orders THEN SqlErr
    ELSE LET id == store.seqItems + 1
             row == [id |-> id, order_id |-> orderId, name |-> item.name,
                     price |-> item.price, qty |-> item.qty]
         IN  SqlOk([store EXCEPT !.items = Put(@, id, row), !.seqItems = id],
                   inTx, journal, id, 1)

\* an UPDATE that writes a row when it finds none
SqlUpdateStatus_Upsert(fault, nextStatus, orderId) ==
    IF fault THEN SqlErr
    ELSE IF orderId \notin DOMAIN store.orders
        THEN SqlOk([store EXCEPT !.orders = Put(@, orderId,
                        [id |-> orderId, customerName |-> 0,
                         status |-> nextStatus, total |-> 0])],
                   inTx, journal, 0, 0)
    ELSE SqlOk([store EXCEPT !.orders[orderId].status = nextStatus],
               inTx, journal, 0, 1)

\* an UPDATE that leaves served and cancelled orders alone
SqlUpdateStatus_Forward(fault, nextStatus, orderId) ==
    IF fault THEN SqlErr
    ELSE IF orderId \notin DOMAIN store.orders THEN SqlOk(store, inTx, journal, 0, 0)
    ELSE IF store.orders[orderId].status \in {"served", "cancelled"}
        THEN SqlOk(store, inTx, journal, 0, 0)
    ELSE SqlOk([store EXCEPT !.orders[orderId].status = nextStatus],
               inTx, journal, 0, 1)

\* UPDATE orders SET status = ? WHERE id = ?
SqlUpdateStatus(fault, nextStatus, orderId) ==
    IF fault THEN SqlErr
    ELSE IF orderId \notin DOMAIN store.orders THEN SqlOk(store, inTx, journal, 0, 0)
    ELSE SqlOk([store EXCEPT !.orders[orderId].status = nextStatus],
               inTx, journal, 0, 1)

RECURSIVE Ascending(_)
Ascending(S) ==
    IF S = {} THEN <<>>
    ELSE LET m == CHOOSE x \in S : \A y \in S : x <= y
         IN  <<m>> \o Ascending(S \ {m})

RECURSIVE Descending(_)
Descending(S) ==
    IF S = {} THEN <<>>
    ELSE LET m == CHOOSE x \in S : \A y \in S : x >= y
         IN  <<m>> \o Descending(S \ {m})

\* SELECT ... FROM orders WHERE id = ?   (row || null)
SelectOrder(orderId) ==
    IF orderId \in DOMAIN store.orders THEN store.orders[orderId] ELSE null

\* SELECT id, name, price, qty FROM order_items WHERE order_id = ? ORDER BY id ASC
ItemsIn(s, orderId) ==
    LET ids == Ascending({i \in DOMAIN s.items : s.items[i].order_id = orderId})
    IN  [k \in 1..Len(ids) |->
            LET it == s.items[ids[k]]
            IN  [id |-> it.id, name |-> it.name, price |-> it.price, qty |-> it.qty]]

SelectItems(orderId) == ItemsIn(store, orderId)

\* SELECT ... FROM orders ORDER BY id DESC
SelectOrders ==
    LET ids == Descending(DOMAIN store.orders)
    IN  [k \in 1..Len(ids) |-> store.orders[ids[k]]]

\* order.items = rows
WithItems(order, items) ==
    [id |-> order.id, customerName |-> order.customerName, status |-> order.status,
     total |-> order.total, items |-> items]

\* the connection after statement result q of request who
Exec(q, who) ==
    /\ store' = q.store
    /\ inTx' = q.inTx
    /\ journal' = q.journal
    /\ txWriters' = IF q.err THEN txWriters
                    ELSE IF ~q.inTx THEN {}
                    ELSE IF q.changes > 0 THEN txWriters \cup {who}
                    ELSE txWriters
    /\ undone' = IF ~q.err /\ q.rolledBack THEN undone \cup txWriters ELSE undone

\* whether the store fails the statement being executed
Fault(f) ==
    /\ f \in BOOLEAN
    /\ f => faults < MaxFaults
    /\ faults' = IF f THEN faults + 1 ELSE faults


----------------------------------------------------------------------------
(* Session store *)

Remove(f, k) == [x \in DOMAIN f \ {k} |-> f[x]]

\* createSession: the session stored for a fresh token
newSession == [adminId |-> 1, username |-> "admin", expiresAt |-> now + SESSION_TTL_MS]

\* getSession with the comparison expiresAt <= Date.now()
getSession_Inclusive(sess, token) ==
    IF token \notin DOMAIN sess
        THEN [session |-> null, sessions |-> sess]
    ELSE IF sess[token].expiresAt <= now
        THEN [session |-> null, sessions |-> Remove(sess, token)]
    ELSE [session |-> sess[token], sessions |-> sess]

\* getSession(token) on the map sess: the value returned and the map afterwards
getSession(sess, token) ==
    IF token \notin DOMAIN sess
        THEN [session |-> null, sessions |-> sess]
    ELSE IF sess[token].expiresAt < now
        THEN [session |-> null, sessions |-> Remove(sess, token)]
    ELSE [session |-> sess[token], sessions |-> sess]

\* an interval callback that does not sweep
sweep_None(sess) == sess

\* the sweep of the interval callback: sessions.forEach(... delete ...)
sweep(sess) ==
    [t \in {k \in DOMAIN sess : ~(sess[k].expiresAt < now)} |-> sess[t]]

----------------------------------------------------------------------------
(* Event hub *)

sseEvent(event, payload) == [event |-> event, payload |-> payload]

\* broadcast without the getSession check
Pruned_None(sess) == {}

\* the clients for which broadcast's getSession(client.token) returns null
Pruned(sess) ==
    {c \in sseClients : getSession(sess, clients[c].token).session = null}

\* broadcast whose catch does not delete the client from the live set
broadcast_KeepFailed(sess, event, payload, by, fails) ==
    LET gone == Pruned(sess)
        failed == fails \ gone
        kept == sseClients \ (gone \cup failed)
    IN  /\ sessions' = [t \in DOMAIN sess \ {clients[c].token : c \in gone} |-> sess[t]]
        /\ sseClients' = sseClients \ gone
        /\ clients' = [c \in Clients |->
                          IF c \in gone \cup failed
                          THEN [clients[c] EXCEPT !.ended = TRUE]
                          ELSE clients[c]]
        /\ written' = [c \in Clients |->
                          IF c \in kept
                          THEN Append(written[c], sseEvent(event, payload))
                          ELSE written[c]]
        /\ published' = Append(published,
                               [event |-> event, payload |-> payload, by |-> by,
                                failed |-> failed])

\* broadcast without the try around sendSse: the first failing write ends the
\* forEach (taken in handle order), the clients after it are left as they were
broadcast_Abort(sess, event, payload, by, fails) ==
    LET gone == Pruned(sess)
        failed == fails \ gone
        reached == IF failed = {} THEN sseClients
                   ELSE {c \in sseClients : \A x \in failed : c <= x}
        kept == reached \ (gone \cup failed)
    IN  /\ sessions' = [t \in DOMAIN sess \ {clients[c].token : c \in gone} |-> sess[t]]
        /\ sseClients' = sseClients \ (reached \cap (gone \cup failed))
        /\ clients' = [c \in Clients |->
                          IF c \in reached \cap (gone \cup failed)
                          THEN [clients[c] EXCEPT !.ended = TRUE]
                          ELSE clients[c]]
        /\ written' = [c \in Clients |->
                          IF c \in kept
                          THEN Append(written[c], sseEvent(event, payload))
                          ELSE written[c]]
        /\ published' = Append(published,
                               [event |-> event, payload |-> payload, by |-> by,
                                failed |-> failed])

\* broadcast(event, payload), called with the session map sess by request `by`;
\* sendSse throws for the clients in fails.  Each forEach callback depends on
\* its own client only: getSession deletes nothing but the expired session it
\* was asked for, so the iteration order does not show in the result.
broadcast(sess, event, payload, by, fails) ==
    LET gone == Pruned(sess)
        failed == fails \ gone
        kept == sseClients \ (gone \cup failed)
    IN  /\ sessions' = [t \in DOMAIN sess \ {clients[c].token : c \in gone} |-> sess[t]]
        /\ sseClients' = kept
        /\ clients' = [c \in Clients |->
                          IF c \in gone \cup failed
                          THEN [clients[c] EXCEPT !.ended = TRUE]
                          ELSE clients[c]]
        /\ written' = [c \in Clients |->
                          IF c \in kept
                          THEN Append(written[c], sseEvent(event, payload))
                          ELSE written[c]]
        /\ published' = Append(published,
                               [event |-> event, payload |-> payload, by |-> by,
                                failed |-> failed])

\* the times at which the interval callback has run
Beats == {published[k].payload.now : k \in {j \in DOMAIN published : published[j].event = "ping"}}

----------------------------------------------------------------------------
(* Initial state: the process after initDatabase, no request made yet *)

NoClient == [token |-> "", status |-> 0, ended |-> FALSE, closed |-> FALSE]

NoCreate == [pc |-> "idle", items |-> <<>>, total |-> 0, orderId |-> 0, i |-> 0,
             order |-> null, res |-> 0]

NoUpdate == [pc |-> "idle", token |-> "", admin |-> null,
             orderId |-> 0, nextStatus |-> "", order |-> null, res |-> 0]

NoList == [pc |-> "idle", token |-> "", admin |-> null,
           orders |-> <<>>, i |-> 0, res |-> 0]

\* the process started on a database file holding the tables s
InitOn(s) ==
    /\ now = 0
    /\ ticks = 0
    /\ sessions = <<>>
    /\ issued = <<>>
    /\ sseClients = {}
    /\ clients = [c \in Clients |-> NoClient]
    /\ written = [c \in Clients |-> <<>>]
    /\ store = s
    /\ inTx = FALSE
    /\ journal = EmptyStore
    /\ creq = [r \in CreateReqs |-> NoCreate]
    /\ ureq = [u \in UpdateReqs |-> NoUpdate]
    /\ lreq = [l \in ListReqs |-> NoList]
    /\ published = <<>>
    /\ txWriters = {}
    /\ undone = {}
    /\ faults = 0

\* a new orders.db
Init == InitOn(EmptyStore)

\* an orders.db left by an earlier run of the server: one order of one item
\* (CREATE TABLE IF NOT EXISTS keeps the rows; sessions and subscribers are
\* in memory and start empty)
OneOrderStore ==
    [orders |-> <<[id |-> 1, customerName |-> 0, status |-> "pending", total |-> 15]>>,
     items |-> <<[id |-> 1, order_id |-> 1, name |-> <<"t">>, price |-> 15, qty |-> 1]>>,
     seqOrders |-> 1, seqItems |-> 1]

InitHub == InitOn(OneOrderStore)

\* Requests are interchangeable, so slot k is used only after slot k - 1, and
\* at most MaxRequests requests are made in one run.
NumStarted ==
    Cardinality({r \in CreateReqs : creq[r].pc # "idle"})
    + Cardinality({u \in UpdateReqs : ureq[u].pc # "idle"})
    + Cardinality({l \in ListReqs : lreq[l].pc # "idle"})

NextSlot(req, k) ==
    /\ req[k].pc = "idle"
    /\ IF k = 1 THEN TRUE ELSE req[k - 1].pc # "idle"
    /\ NumStarted < MaxRequests

----------------------------------------------------------------------------
(* Clock, login, stream endpoint, interval callback *)

\* time passes
Tick(d) ==
    /\ ticks < MaxTicks
    /\ ticks' = ticks + 1
    /\ now' = now + d
    /\ UNCHANGED <<sessions, issued, hubVars, dbVars, creq, ureq, lreq, published, faults>>

\* POST /api/admin/login with the seeded admin's credentials: createSession
\* under a token never issued before
Login(tok) ==
    /\ tok \notin DOMAIN issued
    /\ sessions' = Put(sessions, tok, newSession)
    /\ issued' = Put(issued, tok, newSession)
    /\ UNCHANGED <<now, ticks, hubVars, dbVars, creq, ureq, lreq, published, faults>>

\* the stream endpoint registering before it looks at the session
StreamConnect_Unchecked(c, tok) ==
    /\ clients[c].status = 0
    /\ IF c = 1 THEN TRUE ELSE clients[c - 1].status # 0
    /\ sessions' = getSession(sessions, tok).sessions
    /\ clients' = [clients EXCEPT ![c] =
                      [token |-> tok, status |-> 200, ended |-> FALSE, closed |-> FALSE]]
    /\ sseClients' = sseClients \cup {c}
    /\ written' = [written EXCEPT ![c] =
                      Append(@, sseEvent("ready", [ok |-> TRUE, now |-> now]))]
    /\ UNCHANGED <<now, ticks, issued, dbVars, creq, ureq, lreq, published, faults>>

\* GET /api/admin/orders/stream?token=tok on a new connection c.  Connection
\* handles are interchangeable: handle c is used only after handle c - 1.
StreamConnect(c, tok) ==
    /\ clients[c].status = 0
    /\ IF c = 1 THEN TRUE ELSE clients[c - 1].status # 0
    /\ LET got == getSession(sessions, tok)
       IN  /\ sessions' = got.sessions
           /\ IF got.session = null
              THEN /\ clients' = [clients EXCEPT ![c] =
                            [token |-> tok, status |-> 401, ended |-> TRUE, closed |-> FALSE]]
                   /\ UNCHANGED <<sseClients, written>>
              ELSE /\ clients' = [clients EXCEPT ![c] =
                            [token |-> tok, status |-> 200, ended |-> FALSE, closed |-> FALSE]]
                   /\ sseClients' = sseClients \cup {c}
                   /\ written' = [written EXCEPT ![c] =
                            Append(@, sseEvent("ready", [ok |-> TRUE, now |-> now]))]
    /\ UNCHANGED <<now, ticks, issued, dbVars, creq, ureq, lreq, published, faults>>

\* the stream endpoint when sendSse throws on the ready event: the headers
\* are out and the client is in the Set, the exception leaves the handler
\* before req.on("close", ...) is reached
StreamConnectThrows(c, tok) ==
    /\ clients[c].status = 0
    /\ IF c = 1 THEN TRUE ELSE clients[c - 1].status # 0
    /\ LET got == getSession(sessions, tok)
       IN  /\ got.session # null
           /\ sessions' = got.sessions
    /\ clients' = [clients EXCEPT ![c] =
                      [token |-> tok, status |-> 200, ended |-> FALSE, closed |-> FALSE]]
    /\ sseClients' = sseClients \cup {c}
    /\ UNCHANGED <<now, ticks, issued, written, dbVars, creq, ureq, lreq, published, faults>>

\* whether the handler of connection c got as far as req.on("close", ...)
CloseHandlerSet(c) ==
    /\ clients[c].status = 200
    /\ Len(written[c]) > 0
    /\ written[c][1].event = "ready"

\* a close callback that puts back a client it does not find in the Set
ClientClose_Toggle(c) ==
    /\ CloseHandlerSet(c)
    /\ ~clients[c].closed
    /\ clients' = [clients EXCEPT ![c].closed = TRUE]
    /\ sseClients' = IF c \in sseClients THEN sseClients \ {c} ELSE sseClients \cup {c}
    /\ UNCHANGED <<now, ticks, sessions, issued, written, dbVars, creq, ureq, lreq,
                   published, faults>>

\* req.on("close"): the client went away
ClientClose(c) ==
    /\ CloseHandlerSet(c)
    /\ ~clients[c].closed
    /\ clients' = [clients EXCEPT ![c].closed = TRUE]
    /\ sseClients' = sseClients \ {c}
    /\ UNCHANGED <<now, ticks, sessions, issued, written, dbVars, creq, ureq, lreq,
                   published, faults>>

\* the setInterval callback: sweep, then broadcast("ping", { now }).  The
\* timer is set at time 0 and its runs are 25 s apart: no two of them fall on
\* the same millisecond, and none on the millisecond the process started.
Heartbeat(fails) ==
    /\ now > 0
    /\ now \notin Beats
    /\ fails \subseteq sseClients
    /\ broadcast(sweep(sessions), "ping", [now |-> now], <<"interval", 0>>, fails)
    /\ UNCHANGED <<now, ticks, issued, dbVars, creq, ureq, lreq, faults>>


----------------------------------------------------------------------------
(* POST /api/orders *)

CreateDone(r, code) == [creq EXCEPT ![r].pc = "done", ![r].res = code]

\* the handler up to its first await: normalize, 400 on an empty list, total
CreateStart(r, body) ==
    /\ NextSlot(creq, r)
    /\ LET items == normalizeItems(body)
       IN  creq' = IF Len(items) = 0
                   THEN CreateDone(r, 400)
                   ELSE [creq EXCEPT ![r].pc = "begin", ![r].items = items,
                                     ![r].total = Total(items)]
    /\ UNCHANGED <<now, ticks, sessions, issued, hubVars, dbVars, ureq, lreq,
                   published, faults>>

\* await run("BEGIN TRANSACTION;")
CreateBegin(r, f) ==
    /\ creq[r].pc = "begin"
    /\ Fault(f)
    /\ LET q == SqlBegin(f)
       IN  /\ Exec(q, <<"create", r>>)
           /\ creq' = [creq EXCEPT ![r].pc = IF q.err THEN "rollback" ELSE "insertOrder"]
    /\ UNCHANGED <<now, ticks, sessions, issued, hubVars, ureq, lreq, published>>

\* await run("INSERT INTO orders ..."); orderId = result.lastID
CreateInsertOrder(r, f) ==
    /\ creq[r].pc = "insertOrder"
    /\ Fault(f)
    /\ LET q == SqlInsertOrder(f, r, creq[r].total)
       IN  /\ Exec(q, <<"create", r>>)
           /\ creq' = IF q.err
                      THEN [creq EXCEPT ![r].pc = "rollback"]
                      ELSE [creq EXCEPT ![r].pc = "insertItem", ![r].orderId = q.lastID,
                                        ![r].i = 1]
    /\ UNCHANGED <<now, ticks, sessions, issued, hubVars, ureq, lreq, published>>

\* await run("INSERT INTO order_items ...") for items[i]; i += 1
CreateInsertItem(r, f) ==
    /\ creq[r].pc = "insertItem"
    /\ Fault(f)
    /\ LET q == SqlInsertItem(f, creq[r].orderId, creq[r].items[creq[r].i])
       IN  /\ Exec(q, <<"create", r>>)
           /\ creq' = IF q.err
                      THEN [creq EXCEPT ![r].pc = "rollback"]
                      ELSE [creq EXCEPT ![r].i = @ + 1,
                                        ![r].pc = IF creq[r].i < Len(creq[r].items)
                                                  THEN "insertItem" ELSE "commit"]
    /\ UNCHANGED <<now, ticks, sessions, issued, hubVars, ureq, lreq, published>>

\* await run("COMMIT;")
CreateCommit(r, f) ==
    /\ creq[r].pc = "commit"
    /\ Fault(f)
    /\ LET q == SqlCommit(f)
       IN  /\ Exec(q, <<"create", r>>)
           /\ creq' = [creq EXCEPT ![r].pc = IF q.err THEN "rollback" ELSE "getOrder"]
    /\ UNCHANGED <<now, ticks, sessions, issued, hubVars, ureq, lreq, published>>

\* getOrderById: await get("SELECT ... FROM orders WHERE id = ?").  With no
\* row it returns null, and the handler broadcasts and answers 201.
CreateGetOrder(r, f, fails) ==
    /\ creq[r].pc = "getOrder"
    /\ Fault(f)
    /\ fails \subseteq sseClients
    /\ LET order == SelectOrder(creq[r].orderId)
       IN  IF f
           THEN /\ creq' = [creq EXCEPT ![r].pc = "rollback"]
                /\ fails = {}
                /\ UNCHANGED <<sessions, hubVars, published>>
           ELSE IF order = null
           THEN /\ creq' = CreateDone(r, 201)
                /\ broadcast(sessions, "order", [type |-> "order_created", order |-> null],
                             <<"create", r>>, fails)
           ELSE /\ creq' = [creq EXCEPT ![r].pc = "getItems", ![r].order = order]
                /\ fails = {}
                /\ UNCHANGED <<sessions, hubVars, published>>
    /\ UNCHANGED <<now, ticks, issued, dbVars, ureq, lreq>>

\* getOrderById: order.items = await all("SELECT ... FROM order_items ...");
\* then broadcast("order", { type: "order_created", order }) and 201
CreateGetItems(r, f, fails) ==
    /\ creq[r].pc = "getItems"
    /\ Fault(f)
    /\ fails \subseteq sseClients
    /\ IF f
       THEN /\ creq' = [creq EXCEPT ![r].pc = "rollback"]
            /\ fails = {}
            /\ UNCHANGED <<sessions, hubVars, published>>
       ELSE LET order == WithItems(creq[r].order, SelectItems(creq[r].orderId))
            IN  /\ creq' = [CreateDone(r, 201) EXCEPT ![r].order = order]
                /\ broadcast(sessions, "order", [type |-> "order_created", order |-> order],
                             <<"create", r>>, fails)
    /\ UNCHANGED <<now, ticks, issued, dbVars, ureq, lreq>>

\* catch: await run("ROLLBACK;") with its own error swallowed, then 500
CreateRollback(r) ==
    /\ creq[r].pc = "rollback"
    /\ Exec(SqlRollback, <<"create", r>>)
    /\ creq' = CreateDone(r, 500)
    /\ UNCHANGED <<now, ticks, sessions, issued, hubVars, ureq, lreq, published, faults>>

----------------------------------------------------------------------------
(* PATCH /api/admin/orders/:id/status *)

LowerWord(w) ==
    CASE w = "Served" -> "served"
      [] w = "PENDING" -> "pending"
      [] w = "Preparing" -> "preparing"
      [] w = "CANCELLED" -> "cancelled"
      [] OTHER -> w

toLowerCase(text) == [k \in 1..Len(text) |-> LowerWord(text[k])]

\* a text here is a tuple of blanks and words
StatusInputs == { <<" ", "Served">>, <<"cancelled">>, <<"done">> }

OrderIdInputs == {0, 1, 2}

UpdateDone(u, code) == [ureq EXCEPT ![u].pc = "done", ![u].res = code]

\* authMiddleware (401, or req.admin = session) and the handler up to its
\* first await
UpdateStart(u, tok, id, status) ==
    /\ NextSlot(ureq, u)
    /\ LET got == getSession(sessions, tok)
           nextStatus == toLowerCase(sanitizeText(status, 40))
           authed == [ureq EXCEPT ![u].token = tok, ![u].admin = got.session]
       IN  /\ sessions' = got.sessions
           /\ ureq' = IF got.session = null
                          THEN [authed EXCEPT ![u].pc = "done", ![u].res = 401]
                      ELSE IF id <= 0
                          THEN [authed EXCEPT ![u].pc = "done", ![u].res = 400]
                      ELSE IF ~(Len(nextStatus) = 1 /\ nextStatus[1] \in ORDER_STATUSES)
                          THEN [authed EXCEPT ![u].pc = "done", ![u].res = 400]
                      ELSE [authed EXCEPT ![u].pc = "update", ![u].orderId = id,
                                          ![u].nextStatus = nextStatus[1]]
    /\ UNCHANGED <<now, ticks, issued, hubVars, dbVars, creq, lreq, published, faults>>

\* await run("UPDATE orders SET status = ? ..."); 404 when nothing changed
UpdateRun(u, f) ==
    /\ ureq[u].pc = "update"
    /\ Fault(f)
    /\ LET q == SqlUpdateStatus(f, ureq[u].nextStatus, ureq[u].orderId)
       IN  /\ Exec(q, <<"update", u>>)
           /\ ureq' = IF q.err THEN UpdateDone(u, 500)
                      ELSE IF q.changes = 0 THEN UpdateDone(u, 404)
                      ELSE [ureq EXCEPT ![u].pc = "getOrder"]
    /\ UNCHANGED <<now, ticks, sessions, issued, hubVars, creq, lreq, published>>

\* getOrderById: the order row
UpdateGetOrder(u, f, fails) ==
    /\ ureq[u].pc = "getOrder"
    /\ Fault(f)
    /\ fails \subseteq sseClients
    /\ LET order == SelectOrder(ureq[u].orderId)
       IN  IF f
           THEN /\ ureq' = UpdateDone(u, 500)
                /\ fails = {}
                /\ UNCHANGED <<sessions, hubVars, published>>
           ELSE IF order = null
           THEN /\ ureq' = UpdateDone(u, 200)
                /\ broadcast(sessions, "order", [type |-> "order_updated", order |-> null],
                             <<"update", u>>, fails)
           ELSE /\ ureq' = [ureq EXCEPT ![u].pc = "getItems", ![u].order = order]
                /\ fails = {}
                /\ UNCHANGED <<sessions, hubVars, published>>
    /\ UNCHANGED <<now, ticks, issued, dbVars, creq, lreq>>

\* getOrderById: the items; then broadcast("order", { type: "order_updated", order })
\* and res.json({ message, order })
UpdateGetItems(u, f, fails) ==
    /\ ureq[u].pc = "getItems"
    /\ Fault(f)
    /\ fails \subseteq sseClients
    /\ IF f
       THEN /\ ureq' = UpdateDone(u, 500)
            /\ fails = {}
            /\ UNCHANGED <<sessions, hubVars, published>>
       ELSE LET order == WithItems(ureq[u].order, SelectItems(ureq[u].orderId))
            IN  /\ ureq' = [UpdateDone(u, 200) EXCEPT ![u].order = order]
                /\ broadcast(sessions, "order", [type |-> "order_updated", order |-> order],
                             <<"update", u>>, fails)
    /\ UNCHANGED <<now, ticks, issued, dbVars, creq, lreq>>

----------------------------------------------------------------------------
(* GET /api/admin/orders *)

ListDone(l, code) == [lreq EXCEPT ![l].pc = "done", ![l].res = code]

\* authMiddleware: 401, or req.admin = session and on to the handler
ListStart(l, tok) ==
    /\ NextSlot(lreq, l)
    /\ LET got == getSession(sessions, tok)
       IN  /\ sessions' = got.sessions
           /\ lreq' = IF got.session = null
                      THEN [ListDone(l, 401) EXCEPT ![l].token = tok]
                      ELSE [lreq EXCEPT ![l].pc = "orders", ![l].token = tok,
                                        ![l].admin = got.session]
    /\ UNCHANGED <<now, ticks, issued, hubVars, dbVars, creq, ureq, published, faults>>

\* getAllOrdersWithItems: await all("SELECT ... FROM orders ORDER BY id DESC")
ListOrders(l, f) ==
    /\ lreq[l].pc = "orders"
    /\ Fault(f)
    /\ lreq' = IF f THEN ListDone(l, 500)
               ELSE IF Len(SelectOrders) = 0
                   THEN ListDone(l, 200)
               ELSE [lreq EXCEPT ![l].pc = "items", ![l].orders = SelectOrders, ![l].i = 1]
    /\ UNCHANGED <<now, ticks, sessions, issued, hubVars, dbVars, creq, ureq, published>>

\* getAllOrdersWithItems: orders[i].items = await all(...); i += 1
ListItems(l, f) ==
    /\ lreq[l].pc = "items"
    /\ Fault(f)
    /\ LET i == lreq[l].i
           order == WithItems(lreq[l].orders[i], SelectItems(lreq[l].orders[i].id))
       IN  lreq' = IF f THEN ListDone(l, 500)
                   ELSE [lreq EXCEPT ![l].orders[i] = order, ![l].i = i + 1,
                                     ![l].pc = IF i < Len(lreq[l].orders) THEN "items" ELSE "done",
                                     ![l].res = IF i < Len(lreq[l].orders) THEN 0 ELSE 200]
    /\ UNCHANGED <<now, ticks, sessions, issued, hubVars, dbVars, creq, ureq, published>>

----------------------------------------------------------------------------
(* Specifications *)

\* the order pipeline: requests interleaving on the shared connection
NextOrders ==
    \/ Login("t1")
    \/ \E r \in CreateReqs, body \in RawOrders : CreateStart(r, body)
    \/ \E r \in CreateReqs, f \in BOOLEAN : CreateBegin(r, f)
    \/ \E r \in CreateReqs, f \in BOOLEAN : CreateInsertOrder(r, f)
    \/ \E r \in CreateReqs, f \in BOOLEAN : CreateInsertItem(r, f)
    \/ \E r \in CreateReqs, f \in BOOLEAN : CreateCommit(r, f)
    \/ \E r \in CreateReqs, f \in BOOLEAN : CreateGetOrder(r, f, {})
    \/ \E r \in CreateReqs, f \in BOOLEAN : CreateGetItems(r, f, {})
    \/ \E r \in CreateReqs : CreateRollback(r)
    \/ \E u \in UpdateReqs, tok \in Tokens, id \in OrderIdInputs, st \in StatusInputs :
          UpdateStart(u, tok, id, st)
    \/ \E u \in UpdateReqs, f \in BOOLEAN : UpdateRun(u, f)
    \/ \E u \in UpdateReqs, f \in BOOLEAN : UpdateGetOrder(u, f, {})
    \/ \E u \in UpdateReqs, f \in BOOLEAN : UpdateGetItems(u, f, {})
    \/ \E l \in ListReqs, tok \in Tokens : ListStart(l, tok)
    \/ \E l \in ListReqs, f \in BOOLEAN : ListOrders(l, f)
    \/ \E l \in ListReqs, f \in BOOLEAN : ListItems(l, f)

SpecOrders == Init /\ [][NextOrders]_vars

\* the clock steps offered: a millisecond, and a whole session lifetime
TimeSteps == {1, SESSION_TTL_MS}

\* the status change offered to the hub specification
HubStatus == <<"Served">>

\* sessions, the stream endpoint, the interval callback and one status change
\* of the stored order, while subscribers come, expire and go
NextHub ==
    \/ \E d \in TimeSteps : Tick(d)
    \/ Login("t1")
    \/ \E c \in Clients, tok \in Tokens : StreamConnect(c, tok)
    \/ \E c \in Clients : ClientClose(c)
    \/ Heartbeat({})
    \/ \E tok \in Tokens : UpdateStart(1, tok, 1, HubStatus)
    \/ UpdateRun(1, FALSE)
    \/ UpdateGetOrder(1, FALSE, {})
    \/ UpdateGetItems(1, FALSE, {})

SpecHub == InitHub /\ [][NextHub]_vars

\* the interval timer keeps firing for as long as the process runs
FairHub == SpecHub /\ WF_vars(Heartbeat({}))

\* every legal status, in the spellings a client may send
LegalStatusInputs == { <<"PENDING">>, <<"Preparing">>, <<" ", "Served">>, <<"cancelled">> }

\* creation and status changes with no storage fault: every legal status is
\* asked for, from every status an order can be in
NextStatus ==
    \/ Login("t1")
    \/ \E r \in CreateReqs, body \in RawOrders : CreateStart(r, body)
    \/ \E r \in CreateReqs : CreateBegin(r, FALSE)
    \/ \E r \in CreateReqs : CreateInsertOrder(r, FALSE)
    \/ \E r \in CreateReqs : CreateInsertItem(r, FALSE)
    \/ \E r \in CreateReqs : CreateCommit(r, FALSE)
    \/ \E r \in CreateReqs : CreateGetOrder(r, FALSE, {})
    \/ \E r \in CreateReqs : CreateGetItems(r, FALSE, {})
    \/ \E r \in CreateReqs : CreateRollback(r)
    \/ \E u \in UpdateReqs, tok \in Tokens, st \in LegalStatusInputs :
          UpdateStart(u, tok, 1, st)
    \/ \E u \in UpdateReqs : UpdateRun(u, FALSE)
    \/ \E u \in UpdateReqs : UpdateGetOrder(u, FALSE, {})
    \/ \E u \in UpdateReqs : UpdateGetItems(u, FALSE, {})

SpecStatus == Init /\ [][NextStatus]_vars

\* the hub with failing writes: sendSse may throw for any subscriber of a
\* broadcast, and for the ready event of a new connection
NextFanout ==
    \/ \E d \in TimeSteps : Tick(d)
    \/ Login("t1")
    \/ \E c \in Clients, tok \in Tokens : StreamConnect(c, tok)
    \/ \E c \in Clients, tok \in Tokens : StreamConnectThrows(c, tok)
    \/ \E c \in Clients : ClientClose(c)
    \/ \E fails \in SUBSET Clients : Heartbeat(fails)
    \/ \E tok \in Tokens : UpdateStart(1, tok, 1, HubStatus)
    \/ UpdateRun(1, FALSE)
    \/ UpdateGetOrder(1, FALSE, {})
    \/ \E fails \in SUBSET Clients : UpdateGetItems(1, FALSE, fails)

SpecFanout == InitHub /\ [][NextFanout]_vars

----------------------------------------------------------------------------
(* Vocabulary of the claims *)

\* what is committed: the tables without the writes of the open transaction
Durable == IF inTx THEN journal ELSE store

\* the items of an order object, as submitted (name, price, qty)
Submitted(items) ==
    [k \in 1..Len(items) |->
        [name |-> items[k].name, price |-> items[k].price, qty |-> items[k].qty]]

\* the orders (with their items) that reads have returned so far: the
\* re-reads of the create and update handlers and the entries of the listing
Observed ==
    {creq[r].order : r \in {x \in CreateReqs : creq[x].res = 201}}
    \cup {ureq[u].order : u \in {x \in UpdateReqs : ureq[x].res = 200}}
    \cup UNION {{lreq[l].orders[k] : k \in 1..(lreq[l].i - 1)} : l \in ListReqs}

PublishedBy(who) == {k \in DOMAIN published : published[k].by = who}

\* C1 (as claimed): an order returned by a read carries all the items of the
\* request that created it, and its row is not one that is rolled back later
\* (a rolled-back row is gone from the tables).
C1_ReadsSeeAllOrNothing ==
    \A o \in Observed :
        o # null =>
            /\ Submitted(o.items) = creq[o.customerName].items
            /\ o.id \in DOMAIN store.orders
            /\ store.orders[o.id].customerName = o.customerName

\* C2 (as claimed): with no storage fault, every create request with a
\* non-empty normalized item list answers 201 and has committed its own order
\* row with exactly its own items.
C2_CreatesIndependent ==
    faults = 0 =>
        \A r \in CreateReqs :
            (creq[r].pc = "done" /\ creq[r].items # <<>>) =>
                /\ creq[r].res = 201
                /\ creq[r].orderId \in DOMAIN Durable.orders
                /\ Durable.orders[creq[r].orderId].customerName = r
                /\ Submitted(ItemsIn(Durable, creq[r].orderId)) = creq[r].items

\* C3 (as claimed): every committed order has at least one item row, and its
\* total is the non-negative sum of price * qty over its item rows.
C3_TotalMatchesItems ==
    \A id \in DOMAIN Durable.orders :
        /\ ItemsIn(Durable, id) # <<>>
        /\ Durable.orders[id].total >= 0
        /\ Durable.orders[id].total = Total(ItemsIn(Durable, id))

\* C4 (as claimed): once a create request has answered 500, no order row of
\* that request and no item row under it can be read.
C4_FailedCreateLeavesNothing ==
    \A r \in CreateReqs :
        (creq[r].pc = "done" /\ creq[r].res = 500) =>
            /\ \A id \in DOMAIN store.orders : store.orders[id].customerName # r
            /\ creq[r].orderId # 0 => ItemsIn(store, creq[r].orderId) = <<>>

\* One step, as C7 has it: a step that calls broadcast for a request is that
\* request's only call, the request succeeds, its mutation is committed (not
\* inside an open transaction, not rolled back), and the payload is the order
\* as the tables hold its items at that moment; a request that is done
\* without success has made no call.
C7_Step ==
    /\ \A r \in CreateReqs :
          Cardinality(PublishedBy(<<"create", r>>)') =
              IF creq'[r].res = 201 THEN 1 ELSE 0
    /\ \A u \in UpdateReqs :
          Cardinality(PublishedBy(<<"update", u>>)') =
              IF ureq'[u].res = 200 THEN 1 ELSE 0
    /\ (Len(published') > Len(published) /\ published'[Len(published')].event = "order") =>
          LET e == published'[Len(published')]
              order == e.payload.order
          IN  /\ e.by \notin txWriters' \cup undone'
              /\ order # null
              /\ order.items = ItemsIn(store', order.id)

\* C7 (as claimed): every step keeps "exactly one broadcast per successful
\* request, made after the commit, carrying the re-read order; none otherwise".
C7_BroadcastOncePerSuccess == [][C7_Step]_vars

\* C8 (as claimed): every order_created event carries status pending and
\* exactly the items of the create request that published it.
C8_CreatedEventIsPending ==
    \A k \in DOMAIN published :
        (published[k].event = "order" /\ published[k].payload.type = "order_created") =>
            LET order == published[k].payload.order
            IN  /\ order # null
                /\ order.status = "pending"
                /\ Submitted(order.items) = creq[published[k].by[2]].items

\* C9 (as claimed): the order in a 200 response of updateStatus, and in its
\* order_updated event, has the status that request asked for.
C9_UpdateReturnsOwnStatus ==
    \A u \in UpdateReqs :
        ureq[u].res = 200 =>
            /\ ureq[u].order # null
            /\ ureq[u].order.status = ureq[u].nextStatus
            /\ \A k \in PublishedBy(<<"update", u>>) :
                  /\ published[k].payload.order # null
                  /\ published[k].payload.order.status = ureq[u].nextStatus


\* a step in which request slot u of PATCH .../status passes authMiddleware
Authenticates(u) == ureq[u].pc = "idle" /\ ureq'[u].pc # "idle"

\* a step in which connection c asks for the stream
Connects(c) == clients[c].status = 0 /\ clients'[c].status # 0

\* One step, as C5 has it: getSession on an issued token returns absent and
\* deletes the entry whenever now >= expiresAt, and for now < expiresAt returns the
\* session as it was stored.
C5_Claim_Step ==
    /\ \A u \in UpdateReqs :
          (Authenticates(u) /\ ureq'[u].token \in DOMAIN issued) =>
              LET tok == ureq'[u].token
              IN  IF now >= issued[tok].expiresAt
                  THEN /\ ureq'[u].admin = null
                       /\ ureq'[u].res = 401
                       /\ tok \notin DOMAIN sessions'
                  ELSE /\ ureq'[u].admin = issued[tok]
                       /\ tok \in DOMAIN sessions'
                       /\ sessions'[tok] = issued[tok]
    /\ \A c \in Clients :
          (Connects(c) /\ clients'[c].token \in DOMAIN issued) =>
              LET tok == clients'[c].token
              IN  IF now >= issued[tok].expiresAt
                  THEN clients'[c].status = 401 /\ tok \notin DOMAIN sessions'
                  ELSE clients'[c].status = 200 /\ sessions'[tok] = issued[tok]

\* C5 (as claimed): every getSession call treats now >= expiresAt as expired.
C5_ValidateExpiresAtInstant == [][C5_Claim_Step]_vars

\* One step, amended: getSession on an issued token returns absent and deletes
\* the entry whenever now > expiresAt; for now <= expiresAt, the instant
\* now = expiresAt included, it returns the session as it was stored.
C5_Amended_Step ==
    /\ \A u \in UpdateReqs :
          (Authenticates(u) /\ ureq'[u].token \in DOMAIN issued) =>
              LET tok == ureq'[u].token
              IN  IF now > issued[tok].expiresAt
                  THEN /\ ureq'[u].admin = null
                       /\ ureq'[u].res = 401
                       /\ tok \notin DOMAIN sessions'
                  ELSE /\ ureq'[u].admin = issued[tok]
                       /\ tok \in DOMAIN sessions'
                       /\ sessions'[tok] = issued[tok]
    /\ \A c \in Clients :
          (Connects(c) /\ clients'[c].token \in DOMAIN issued) =>
              LET tok == clients'[c].token
              IN  IF now > issued[tok].expiresAt
                  THEN clients'[c].status = 401 /\ tok \notin DOMAIN sessions'
                  ELSE clients'[c].status = 200 /\ sessions'[tok] = issued[tok]

\* C5 (amended): every getSession call on an issued token returns absent, and
\* deletes the entry, exactly when now > expiresAt; otherwise it returns the
\* stored session unchanged.
C5_ValidateExpiresAfterInstant == [][C5_Amended_Step]_vars

\* a stream request validated at the very instant now = expiresAt and was
\* registered (its ready event carries the time of the request)
C5_Witness ==
    \E c \in Clients :
        /\ clients[c].status = 200
        /\ written[c][1].payload.now = issued[clients[c].token].expiresAt

\* a step that calls broadcast
Broadcasts == Len(published') > Len(published)

\* One step, as C6 has it: a live subscriber whose session is gone or has
\* now >= expiresAt is removed, unwritten, by the next broadcast; a removed
\* subscriber is never written again; under a fair interval timer every such
\* subscriber is eventually removed.
C6_Claim_Step ==
    \A c \in Clients :
        /\ (Broadcasts /\ c \in sseClients
              /\ (clients[c].token \notin DOMAIN sessions
                    \/ now >= sessions[clients[c].token].expiresAt))
              => (c \notin sseClients' /\ written'[c] = written[c])
        /\ (clients[c].status = 200 /\ c \notin sseClients)
              => (c \notin sseClients' /\ written'[c] = written[c])

\* C6 (as claimed): an expired subscriber (now >= expiresAt, or session gone)
\* is pruned unwritten by the next broadcast, is never written again, and is
\* eventually pruned under a fair interval timer.
C6_ExpiredPrunedAtInstant ==
    /\ [][C6_Claim_Step]_vars
    /\ \A c \in Clients :
          (c \in sseClients
             /\ (clients[c].token \notin DOMAIN sessions
                   \/ now >= sessions[clients[c].token].expiresAt))
            ~> (c \notin sseClients)

\* One step, amended: the same with "expired" meaning now > expiresAt (or the
\* session gone): at the instant now = expiresAt the subscriber is still
\* served.
C6_Amended_Step ==
    \A c \in Clients :
        /\ (Broadcasts /\ c \in sseClients
              /\ (clients[c].token \notin DOMAIN sessions
                    \/ now > sessions[clients[c].token].expiresAt))
              => (c \notin sseClients' /\ written'[c] = written[c])
        /\ (clients[c].status = 200 /\ c \notin sseClients)
              => (c \notin sseClients' /\ written'[c] = written[c])

\* C6 (amended): a subscriber whose session is gone or has now > expiresAt is
\* pruned unwritten by the next broadcast or interval tick, is never written
\* again, and is eventually pruned under a fair interval timer.
C6_ExpiredPrunedAfterInstant ==
    /\ [][C6_Amended_Step]_vars
    /\ \A c \in Clients :
          (c \in sseClients
             /\ (clients[c].token \notin DOMAIN sessions
                   \/ now > sessions[clients[c].token].expiresAt))
            ~> (c \notin sseClients)

\* a subscriber has been pruned by a broadcast after its session expired
C6_Witness ==
    \E c \in Clients :
        /\ clients[c].status = 200
        /\ clients[c].ended
        /\ c \notin sseClients
        /\ now > issued[clients[c].token].expiresAt

\* One step, as C10 has it: a stream request whose token is unknown, swept or
\* expired is answered 401 and not registered, then or later; whoever joins the live set does so
\* in its own stream request, with a token that is in the session map and not
\* past its expiry at that moment.
C10_Step ==
    \A c \in Clients :
        LET valid(tok) == tok \in DOMAIN sessions /\ now <= sessions[tok].expiresAt
        IN  /\ (Connects(c) /\ ~valid(clients'[c].token))
                  => (clients'[c].status = 401 /\ c \notin sseClients')
            /\ (c \notin sseClients /\ c \in sseClients')
                  => (Connects(c) /\ valid(clients'[c].token) /\ clients'[c].status = 200)
            /\ clients[c].status = 401
                  => (clients'[c].status = 401 /\ c \notin sseClients')

\* C10: a stream request with a token that fails validation gets 401 and is
\* never in the live set; every member of the live set joined with a token
\* that validated at that moment.
C10_InvalidTokenNeverRegistered == [][C10_Step]_vars

\* a stream request with an issued but expired token was answered 401
C10_Witness ==
    \E c \in Clients :
        /\ clients[c].status = 401
        /\ clients[c].token \in DOMAIN issued
        /\ c \notin sseClients

\* the broadcast calls made so far, as the events they carry
Stream == [k \in DOMAIN published |-> sseEvent(published[k].event, published[k].payload)]

\* the order and ping events written to connection c
Feed(c) == SelectSeq(written[c], LAMBDA e : e.event # "ready")

\* whether the session of subscriber c is in the map and not past its expiry
ValidNow(c) ==
    /\ clients[c].token \in DOMAIN sessions
    /\ now <= sessions[clients[c].token].expiresAt

\* One step, as C11 has it: a broadcast call is one entry of the global
\* sequence and writes its event once to every subscriber that is in the
\* live set after it and to nobody else; no other step writes an order or
\* ping event.
C11_Step ==
    IF Broadcasts
    THEN /\ Len(published') = Len(published) + 1
         /\ \A c \in Clients :
               written'[c] = IF c \in sseClients'
                             THEN Append(written[c], Stream'[Len(published')])
                             ELSE written[c]
    ELSE \A c \in Clients : Feed(c)' = Feed(c)

\* C11: the order and ping events written to a subscriber are, in order and
\* without duplicates or gaps, a contiguous segment of the sequence of
\* broadcast calls (reaching up to the latest call while it is in the live
\* set); each call writes at most one event per subscriber and is complete
\* before the next call.
C11_FeedIsSegmentOfStream ==
    /\ [][C11_Step]_vars
    /\ [](\A c \in Clients :
            \E i \in 0..Len(published) :
                /\ i + Len(Feed(c)) <= Len(published)
                /\ Feed(c) = SubSeq(Stream, i + 1, i + Len(Feed(c)))
                /\ c \in sseClients => i + Len(Feed(c)) = Len(published))

\* a subscriber was written two broadcasts in a row, left the live set and
\* missed a later one
C11_Witness ==
    \E c \in Clients :
        /\ Len(Feed(c)) >= 2
        /\ c \notin sseClients
        /\ Feed(c)[Len(Feed(c))] # Stream[Len(published)]

\* One step, as C12 has it: in a broadcast call every subscriber with a valid
\* session whose write does not fail is written the event and stays in the
\* live set, whatever happens to the others; the subscribers with an invalid
\* session or a failing write, and only they, are removed and ended unwritten.
C12_Step ==
    Broadcasts =>
        LET e == published'[Len(published')]
        IN  \A c \in sseClients :
                IF ValidNow(c) /\ c \notin e.failed
                THEN /\ c \in sseClients'
                     /\ written'[c] = Append(written[c], sseEvent(e.event, e.payload))
                     /\ clients'[c] = clients[c]
                ELSE /\ c \notin sseClients'
                     /\ written'[c] = written[c]
                     /\ clients'[c].ended

C18_ReadyBeforeLive ==
    \A c \in Clients :
        /\ c \in sseClients => (written[c] # <<>> /\ written[c][1].event = "ready")
        /\ Feed(c) # <<>> => written[c][1].event = "ready"

\* One step, as C20 has it: a connection that has left the live set is not
\* put back and is not written to; the close callback of a connection that
\* broadcast has already removed leaves the live set as it is.
C20_Step ==
    \A c \in Clients :
        /\ (clients[c].status # 0 /\ c \notin sseClients)
              => (c \notin sseClients' /\ written'[c] = written[c])
        /\ (clients[c].ended /\ ~clients[c].closed /\ clients'[c].closed)
              => sseClients' = sseClients

\* C20: a removed subscriber is never re-added and never written again, and
\* removal is idempotent (close after broadcast's prune changes nothing).
C20_RemovedStaysRemoved == [][C20_Step]_vars

\* a subscriber was removed and ended by a broadcast, its close callback ran,
\* and the latest two broadcasts went by without reaching it
C20_Witness ==
    \E c \in Clients :
        /\ clients[c].status = 200
        /\ clients[c].ended
        /\ clients[c].closed
        /\ Len(published) >= 2
        /\ \A k \in DOMAIN written[c] :
              /\ written[c][k] # Stream[Len(published)]
              /\ written[c][k] # Stream[Len(published) - 1]

\* a step in which request slot u of PATCH .../status runs its UPDATE
RunsUpdate(u) == ureq[u].pc = "update" /\ ureq'[u].pc # "update"

\* One step, as C13 has it: a step that answers 400 or 404 writes nothing to
\* the tables and publishes nothing; a 400 is answered before any storage
\* statement of the request; a request answered 400 or 404 has published no
\* event.
C13_Step ==
    /\ \A r \in CreateReqs :
          /\ (creq[r].res = 0 /\ creq'[r].res = 400) =>
                /\ creq[r].pc = "idle"
                /\ store' = store /\ journal' = journal /\ inTx' = inTx
                /\ published' = published
          /\ creq'[r].res = 400 => PublishedBy(<<"create", r>>)' = {}
    /\ \A u \in UpdateReqs :
          /\ (ureq[u].res = 0 /\ ureq'[u].res \in {400, 404}) =>
                /\ ureq'[u].res = 400 => ureq[u].pc = "idle"
                /\ store' = store /\ journal' = journal /\ inTx' = inTx
                /\ published' = published
          /\ ureq'[u].res \in {400, 404} => PublishedBy(<<"update", u>>)' = {}

\* C13: a request that ends with 400 (empty normalized item list, bad id, bad
\* status) or 404 (no such order) makes no storage write before a validation
\* error, leaves every order and item row unchanged, and publishes no event.
C13_RejectedLeavesNoTrace == [][C13_Step]_vars

\* with an order in the tables, a create was answered 400 and a status
\* change 404
C13_Witness ==
    /\ DOMAIN store.orders # {}
    /\ \E r \in CreateReqs : creq[r].res = 400
    /\ \E u \in UpdateReqs : ureq[u].res = 404

\* a step in which the interval callback runs
Sweeps == Broadcasts /\ published'[Len(published')].event = "ping"

\* One step, as C14 has it: after the interval callback has run at time now
\* no entry with expiresAt <= now is left, and the entries with
\* expiresAt > now are as they were.
C14_Claim_Step ==
    Sweeps =>
        /\ \A t \in DOMAIN sessions' : ~(sessions'[t].expiresAt <= now)
        /\ \A t \in DOMAIN sessions :
              sessions[t].expiresAt > now =>
                  (t \in DOMAIN sessions' /\ sessions'[t] = sessions[t])

\* C14 (as claimed): every sweep deletes the entries with expiresAt <= now,
\* the one with expiresAt == now included, and leaves the others untouched.
C14_SweepDeletesAtInstant == [][C14_Claim_Step]_vars

\* One step, amended: after the interval callback has run at time now no
\* entry with expiresAt < now is left, and the entries with expiresAt >= now,
\* the one with expiresAt == now included, are as they were.
C14_Amended_Step ==
    Sweeps =>
        /\ \A t \in DOMAIN sessions' : ~(sessions'[t].expiresAt < now)
        /\ \A t \in DOMAIN sessions :
              sessions[t].expiresAt >= now =>
                  (t \in DOMAIN sessions' /\ sessions'[t] = sessions[t])

\* C14 (amended): every sweep, run on every interval tick, deletes exactly
\* the entries with expiresAt < now; an entry with expiresAt == now survives.
C14_SweepDeletesAfterInstant == [][C14_Amended_Step]_vars

\* the interval callback has just run and an expired session is gone that no
\* request and no subscriber ever presented
C14_Witness ==
    /\ published # <<>>
    /\ published[Len(published)].event = "ping"
    /\ published[Len(published)].payload.now = now
    /\ \E t \in DOMAIN issued :
          /\ t \notin DOMAIN sessions
          /\ issued[t].expiresAt < now
          /\ \A c \in Clients : clients[c].token # t
          /\ \A u \in UpdateReqs : ureq[u].token # t

\* One step, as C15 has it: the status of an order changes only in the
\* UPDATE of a status request that passed authMiddleware; a step that
\* answers 401 changes no order or item row and no session other than the
\* expired one it presented.
C15_Step ==
    /\ \A id \in DOMAIN store.orders :
          (id \in DOMAIN store'.orders
             /\ store'.orders[id].status # store.orders[id].status) =>
              \E u \in UpdateReqs :
                  /\ RunsUpdate(u)
                  /\ ureq[u].admin # null
                  /\ ureq[u].orderId = id
    /\ \A u \in UpdateReqs :
          (ureq[u].res = 0 /\ ureq'[u].res = 401) =>
              /\ store' = store /\ journal' = journal /\ inTx' = inTx
              /\ \A t \in DOMAIN sessions :
                    t # ureq'[u].token => (t \in DOMAIN sessions' /\ sessions'[t] = sessions[t])

\* C15 (as claimed): an order's status changes only through an authenticated
\* updateStatus request; a 401 request changes nothing but the expired
\* session entry it presented.
C15_StatusOnlyByAdminUpdate == [][C15_Step]_vars

\* One step, as C16 has it: a new order row has status pending; an
\* authenticated status request with a legal status goes on to its UPDATE;
\* the UPDATE on an existing order sets the status asked for, whatever the
\* current status, and the request is then answered 200.
C16_Step ==
    /\ \A id \in DOMAIN store'.orders :
          id \notin DOMAIN store.orders => store'.orders[id].status = "pending"
    /\ \A u \in UpdateReqs :
          /\ (Authenticates(u) /\ ureq'[u].admin # null) =>
                (ureq'[u].pc = "update" /\ ureq'[u].nextStatus \in ORDER_STATUSES)
          /\ (RunsUpdate(u) /\ ureq[u].orderId \in DOMAIN store.orders) =>
                /\ store'.orders[ureq[u].orderId].status = ureq[u].nextStatus
                /\ ureq'[u].pc = "getOrder"
          /\ (ureq[u].pc \in {"getOrder", "getItems"} /\ ureq'[u].pc = "done") =>
                ureq'[u].res = 200

\* C16: every order is created pending, every stored status is one of the
\* four legal values, and an authenticated updateStatus on an existing order
\* succeeds for every pair of current and target status.
C16_AnyStatusToAnyStatus ==
    /\ [](\A id \in DOMAIN store.orders : store.orders[id].status \in ORDER_STATUSES)
    /\ [][C16_Step]_vars

\* an order went from pending to cancelled and from cancelled back to
\* pending, each change answered 200 with the status it asked for
C16_Witness ==
    /\ ureq[1].res = 200 /\ ureq[2].res = 200
    /\ ureq[1].order # null /\ ureq[2].order # null
    /\ ureq[1].order.status = "cancelled"
    /\ ureq[2].order.status = "pending"
    /\ ureq[1].nextStatus = "cancelled"
    /\ ureq[2].nextStatus = "pending"
    /\ 1 \in DOMAIN store.orders
    /\ store.orders[1].status = "pending"

\* C17 (as claimed): reading the items of a committed order by ascending id
\* returns the normalized items of its create request, in submission order.
C17_ItemsInSubmissionOrder ==
    \A id \in DOMAIN Durable.orders :
        Submitted(ItemsIn(Durable, id)) = creq[Durable.orders[id].customerName].items

\* C19 (as claimed): once a status change has been answered 200 the order is
\* in the tables with the status of an acknowledged or running status
\* change, and once a create has been answered 201 its order and items are
\* in the tables.
C19_AcknowledgedIsDurable ==
    /\ \A u \in UpdateReqs :
          ureq[u].res = 200 =>
              /\ ureq[u].orderId \in DOMAIN store.orders
              /\ store.orders[ureq[u].orderId].status \in
                    {ureq[v].nextStatus : v \in {w \in UpdateReqs :
                        /\ ureq[w].orderId = ureq[u].orderId
                        /\ ureq[w].pc \in {"getOrder", "getItems", "done"}
                        /\ ureq[w].res \in {0, 200}}}
    /\ \A r \in CreateReqs :
          creq[r].res = 201 =>
              /\ creq[r].orderId \in DOMAIN store.orders
              /\ store.orders[creq[r].orderId].customerName = r
              /\ Submitted(ItemsIn(store, creq[r].orderId)) = creq[r].items

=============================================================================
